---- MODULE Spec2Model ----
(***************************************************************************)
(* A model of OneOfSchema (marshmallow_oneofschema/one_of_schema.py): a    *)
(* schema that multiplexes registered sub-schemas on a type tag.           *)
(*                                                                         *)
(* Python values are encoded as follows.                                   *)
(*   - a str is a TLA+ string; the other scalars a tag field can hold are  *)
(*     the strings NoneVal, EmptyList, List1 and Zero (their reprs in      *)
(*     angle brackets);                                                    *)
(*   - a dict is a function from its keys;                                 *)
(*   - a value whose Python type varies (a return value, valid_data) is a  *)
(*     record [k |-> kind, v |-> payload], kind one of "none", "dict",     *)
(*     "list", "tuple", "str";                                             *)
(*   - `only` is [given |-> it is not None, names |-> its members].        *)
(***************************************************************************)
EXTENDS Integers, Sequences, FiniteSets, TLC

(***************************************************************************)
(* Bounds of the model.                                                    *)
(***************************************************************************)
\* the longest batch given to dump(many=True) / load(many=True)
MaxLen == 2

(***************************************************************************)
(* Python values.                                                          *)
(***************************************************************************)
NoneVal == "<None>"
EmptyList == "<[]>"
List1 == "<[1]>"
Zero == "<0>"

\* `not v`
Falsy(v) == v \in {NoneVal, "", EmptyList, Zero}

\* hash(v) succeeds
Hashable(v) == v \notin {EmptyList, List1}

EmptyDict == <<>>

PyNone == [k |-> "none", v |-> <<>>]
PyDict(d) == [k |-> "dict", v |-> d]
PyList(s) == [k |-> "list", v |-> s]
\* the pair (None, messages) that _dump returns
PyTuple(m) == [k |-> "tuple", v |-> m]
\* a load input that is not a dict: the str s
PyStr == [k |-> "str", v |-> <<>>, s |-> "text"]

\* the dicts {k1: v1} and {k1: v1, k2: v2}
Dict1(k1, v1) == [x \in {k1} |-> v1]
Dict2(k1, v1, k2, v2) == [x \in {k1, k2} |-> IF x = k1 THEN v1 ELSE v2]

\* d restricted to the keys in K
Restrict(d, K) == [x \in (DOMAIN d) \cap K |-> d[x]]

\* dict.update: a with every key of b set to b's value
Update(a, b) ==
  [x \in (DOMAIN a) \cup (DOMAIN b) |-> IF x \in DOMAIN b THEN b[x] ELSE a[x]]

\* d with d[key] = val
SetItem(d, key, val) ==
  [x \in (DOMAIN d) \cup {key} |-> IF x = key THEN val ELSE d[x]]

\* dict.pop(key)
Pop(d, key) == [x \in (DOMAIN d) \ {key} |-> d[x]]

\* dict.get(key): None when the key is absent
Get(d, key) == IF key \in DOMAIN d THEN d[key] ELSE NoneVal

(***************************************************************************)
(* Class attributes of OneOfSchema.                                        *)
(***************************************************************************)
type_field == "type"

\* the unknown-field policies of the schema engine, and Schema.unknown
RAISE == "raise"
EXCLUDE == "exclude"
INCLUDE == "include"
self_unknown == RAISE
\* Schema.partial of a schema constructed without partial
self_partial == "False"

(***************************************************************************)
(* The sub-schema engine, as far as OneOfSchema relies on it.  A handler   *)
(* class is [declared, fields, additional]: its declared field names and   *)
(* its Meta.fields / Meta.additional options.  A handler instance is       *)
(* [cls, only, exclude, context].                                          *)
(***************************************************************************)
\* the names a handler class makes available, as _create_type_schema_instance
\* (and the engine itself) computes them
AvailableFieldNames(SchemaCls) ==
  IF SchemaCls.fields # {}
    THEN SchemaCls.fields
    ELSE SchemaCls.declared \cup SchemaCls.additional

\* the fields a handler instance loads and dumps
EffectiveFields(h) ==
  (IF h.only.given THEN h.only.names ELSE AvailableFieldNames(h.cls)) \ h.exclude

\* a field value the handler's field validation rejects
BadValue == "bad"

\* Schema.dump(obj, many=False) of a handler
HandlerDump(h, obj) ==
  LET F == EffectiveFields(h) \cap DOMAIN obj.data
      bad == {f \in F : obj.data[f] = BadValue}
  IN  [raised |-> bad # {},
       messages |-> [f \in bad |-> <<"Invalid value.">>],
       valid_data |-> PyDict(Restrict(obj.data, F \ bad)),
       value |-> PyDict(Restrict(obj.data, F))]

\* Schema.load(data, many=False, partial=, unknown=) of a handler
HandlerLoad(h, data, partial, unknown) ==
  LET F == EffectiveFields(h)
      known == F \cap DOMAIN data
      extra == (DOMAIN data) \ F
      bad == {f \in known : data[f] = BadValue}
      rejected == IF unknown = RAISE THEN extra ELSE {}
      kept == (known \ bad) \cup (IF unknown = INCLUDE THEN extra ELSE {})
  IN  [raised |-> bad \cup rejected # {},
       messages |-> [f \in bad \cup rejected |->
                       IF f \in bad THEN <<"Invalid value.">>
                                     ELSE <<"Unknown field.">>],
       valid_data |-> PyDict(Restrict(data, kept)),
       value |-> PyDict(Restrict(data, kept))]

(***************************************************************************)
(* Construction.                                                           *)
(***************************************************************************)
\* type_field_dump after __init__(only=only, exclude=exclude)
InitTypeFieldDump(only, exclude) ==
  LET after_only == IF only.given THEN type_field \in only.names ELSE TRUE
  IN  IF exclude # {} THEN type_field \notin exclude ELSE after_only

\* (a faulty variant: `only` is handed on as requested)
NarrowOnlyAsRequested(SchemaCls, only, exclude) == only

\* the `only` handed to SchemaCls(only=, exclude=)
NarrowOnly(SchemaCls, only, exclude) ==
  IF (only.given /\ only.names # {}) \/ exclude # {}
    THEN IF only.given /\ only.names # {}
           THEN [given |-> TRUE, names |-> only.names \cap AvailableFieldNames(SchemaCls)]
           ELSE only
    ELSE only

\* the `exclude` handed to SchemaCls(only=, exclude=)
NarrowExclude(SchemaCls, only, exclude) ==
  IF (only.given /\ only.names # {}) \/ exclude # {}
    THEN IF exclude # {}
           THEN exclude \cap AvailableFieldNames(SchemaCls)
           ELSE exclude
    ELSE exclude

CreateTypeSchemaInstance(SchemaCls, only, exclude) ==
  [cls |-> SchemaCls,
   only |-> NarrowOnly(SchemaCls, only, exclude),
   exclude |-> NarrowExclude(SchemaCls, only, exclude),
   context |-> EmptyDict]

InitTypeSchemas(classes, only, exclude) ==
  [t \in DOMAIN classes |-> CreateTypeSchemaInstance(classes[t], only, exclude)]

(***************************************************************************)
(* The state.                                                              *)
(***************************************************************************)
VARIABLES
  ctor,               \* the arguments of __init__: [only, exclude]
  type_field_remove,  \* class attribute, a subclass may set it False
  type_field_dump,    \* set by __init__
  type_schemas,       \* tag -> handler instance (with the handler's context)
  context,            \* self.context
  call,               \* the last call: [op, many, input, partial, unknown, ctx]
  res,                \* its outcome: [raised, value, messages, valid_data, attempted]
  log,                \* the delegations to handlers the last call made, in order
  dumped              \* the record the latest single-item dump returned, with
                      \* the object it came from, until a batch call follows

vars == <<ctor, type_field_remove, type_field_dump, type_schemas, context,
          call, res, log, dumped>>

(***************************************************************************)
(* dump.  An object is [cls, tag, data]: its class name, the tag           *)
(* get_obj_type resolves for it (the method is the subclass's to override, *)
(* the default being the class name), and its attributes.                  *)
(***************************************************************************)
get_obj_type(obj) == obj.tag

\* what every outcome below carries: whether a ValidationError was raised,
\* its messages and valid_data, the value returned otherwise, the registry
\* afterwards and the delegations made
Returned(value, ts, made) ==
  [raised |-> FALSE, messages |-> EmptyDict, valid_data |-> PyNone,
   value |-> value, ts |-> ts, log |-> made]
Raised(messages, valid_data, ts, made) ==
  [raised |-> TRUE, messages |-> messages, valid_data |-> valid_data,
   value |-> PyNone, ts |-> ts, log |-> made]

\* schema.context.update(self.context)
WithContext(schema, ctx) == [schema EXCEPT !.context = Update(@, ctx)]

\* what a delegation shows the handler
Delegation(op, tag, data, partial, unknown, schema) ==
  [op |-> op, tag |-> tag, data |-> data, partial |-> partial,
   unknown |-> unknown, ctx |-> schema.context]

\* (a faulty variant: the tag is never set)
InjectTagNever(result, obj_type, tfd) == result

\* the record _dump returns: the handler's, with the tag set when
\* type_field_dump holds
InjectTag(result, obj_type, tfd) ==
  IF tfd THEN PyDict(SetItem(result.v, type_field, obj_type)) ELSE result

\* the end of _dump, r being what the handler's dump gave
DumpResult(r, obj_type, tfd, ts, made) ==
  IF r.raised
    THEN Raised(r.messages, r.valid_data, ts, made)
    ELSE Returned(InjectTag(r.value, obj_type, tfd), ts, made)

\* _dump from the context update on, schema being the handler
\* with its context updated
DumpDelegate(obj, obj_type, schema, ts, tfd) ==
  DumpResult(HandlerDump(schema, obj), obj_type, tfd,
             [ts EXCEPT ![obj_type] = schema],
             <<Delegation("dump", obj_type, obj.data, NoneVal, NoneVal, schema)>>)

\* _dump(obj) with the registry ts
DumpItem(obj, ts, ctx, tfd) ==
  IF Falsy(get_obj_type(obj))
    THEN Returned(PyTuple(Dict1("_schema", "Unknown object class: " \o obj.cls)),
                  ts, <<>>)
  ELSE IF get_obj_type(obj) \notin DOMAIN ts
    THEN Returned(PyTuple(Dict1("_schema",
                                "Unsupported object type: " \o get_obj_type(obj))),
                  ts, <<>>)
  ELSE DumpDelegate(obj, get_obj_type(obj),
                    WithContext(ts[get_obj_type(obj)], ctx), ts, tfd)

\* (a faulty variant: a failing item leaves no entry in result_data)
CollectSkipFailed(acc, r, idx) ==
  [result_data |-> IF r.raised THEN acc.result_data
                             ELSE Append(acc.result_data, r.value),
   result_errors |-> IF r.raised
                       THEN SetItem(acc.result_errors, idx, r.messages)
                       ELSE acc.result_errors,
   ts |-> r.ts,
   log |-> acc.log \o r.log,
   attempted |-> Append(acc.attempted, idx)]

\* the body of the loops of dump(many=True) and load(many=True): r is what
\* the item at index idx gave; acc is
\* [result_data, result_errors, ts, log, attempted]
Collect(acc, r, idx) ==
  [result_data |-> Append(acc.result_data,
                          IF r.raised THEN r.valid_data ELSE r.value),
   result_errors |-> IF r.raised
                       THEN SetItem(acc.result_errors, idx, r.messages)
                       ELSE acc.result_errors,
   ts |-> r.ts,
   log |-> acc.log \o r.log,
   attempted |-> Append(acc.attempted, idx)]

NoneCollected(ts) ==
  [result_data |-> <<>>, result_errors |-> EmptyDict, ts |-> ts,
   log |-> <<>>, attempted |-> <<>>]

\* the end of dump and load: return result, or raise
\* ValidationError(errors, valid_data=result)
Conclude(errors, result, ts, made, attempted) ==
  IF DOMAIN errors = {}
    THEN [raised |-> FALSE, value |-> result, messages |-> EmptyDict,
          valid_data |-> PyNone, ts |-> ts, log |-> made, attempted |-> attempted]
    ELSE [raised |-> TRUE, value |-> PyNone, messages |-> errors,
          valid_data |-> result, ts |-> ts, log |-> made, attempted |-> attempted]

ConcludeBatch(acc) ==
  Conclude(acc.result_errors, PyList(acc.result_data), acc.ts, acc.log,
           acc.attempted)

\* the loop of dump(objs, many=True)
DumpLoop(objs, ts, ctx, tfd) ==
  LET acc[i \in 0..Len(objs)] ==
        IF i = 0 THEN NoneCollected(ts)
        ELSE Collect(acc[i - 1], DumpItem(objs[i], acc[i - 1].ts, ctx, tfd), i - 1)
  IN  acc[Len(objs)]

\* the end of dump(obj, many=False): _dump's outcome, its exception
\* included, is the call's
DumpSingleResult(r) ==
  [raised |-> r.raised, value |-> r.value, messages |-> r.messages,
   valid_data |-> r.valid_data, ts |-> r.ts, log |-> r.log,
   attempted |-> <<0>>]

\* dump(obj, many=False)
DumpSingle(obj, ts, ctx, tfd) == DumpSingleResult(DumpItem(obj, ts, ctx, tfd))

\* dump(objs, many=True)
DumpBatch(objs, ts, ctx, tfd) == ConcludeBatch(DumpLoop(objs, ts, ctx, tfd))

(***************************************************************************)
(* load.  An input item is PyDict(d) or, when it is no dict, PyStr.        *)
(***************************************************************************)
\* (a faulty variant: the tag is never popped)
StripTagNever(data, remove) == data

\* the record _load hands to the handler: the clone, the tag popped
StripTag(data, remove) ==
  IF type_field \in DOMAIN data /\ remove THEN Pop(data, type_field) ELSE data

\* ValidationError({field: message}) raised by _load itself; message is a
\* list of strings for the tag field and a string for "_schema"
LoadError(field, message, ts) ==
  Raised(Dict1(field, message), PyNone, ts, <<>>)

\* the end of _load, r being what the handler's load gave
LoadResult(r, ts, made) ==
  IF r.raised
    THEN Raised(r.messages, r.valid_data, ts, made)
    ELSE Returned(r.value, ts, made)

\* _load from the context update on, schema being the handler
\* with its context updated
LoadDelegate(data_type, schema, data, partial, unknown, ts) ==
  LoadResult(HandlerLoad(schema, data, partial, unknown),
             [ts EXCEPT ![data_type] = schema],
             <<Delegation("load", data_type, data, partial, unknown, schema)>>)

\* (a faulty variant: the registry lookup is not guarded against an
\* unhashable tag, which then counts as a tag that is not registered)
LoadDispatchUnguarded(data_type, data, partial, unknown, ts, ctx) ==
  IF Falsy(data_type)
    THEN LoadError(type_field, <<"Missing data for required field.">>, ts)
  ELSE IF ~Hashable(data_type) \/ data_type \notin DOMAIN ts
    THEN LoadError(type_field, <<"Unsupported value: " \o data_type>>, ts)
  ELSE LoadDelegate(data_type, WithContext(ts[data_type], ctx), data,
                    partial, unknown, ts)

\* _load from the check of the tag on
LoadDispatch(data_type, data, partial, unknown, ts, ctx) ==
  IF Falsy(data_type)
    THEN LoadError(type_field, <<"Missing data for required field.">>, ts)
  ELSE IF ~Hashable(data_type)
    THEN LoadError(type_field, <<"Invalid value: " \o data_type>>, ts)
  ELSE IF data_type \notin DOMAIN ts
    THEN LoadError(type_field, <<"Unsupported value: " \o data_type>>, ts)
  ELSE LoadDelegate(data_type, WithContext(ts[data_type], ctx), data,
                    partial, unknown, ts)

\* `unknown or self.unknown`
UnknownOrDefault(unknown) == IF unknown = NoneVal THEN self_unknown ELSE unknown

\* _load(item, partial=partial, unknown=unknown) with the registry ts
LoadItem(item, partial, unknown, ts, ctx, remove) ==
  IF item.k # "dict"
    THEN LoadError("_schema", "Invalid data type: " \o item.s, ts)
    ELSE LoadDispatch(Get(item.v, type_field), StripTag(item.v, remove),
                      partial, UnknownOrDefault(unknown), ts, ctx)

\* the unknown policy the loop of load(many=True) gives _load: the call in
\* the loop passes partial and leaves unknown at _load's default
BatchItemUnknown(unknown) == NoneVal

\* the loop of load(data, many=True)
LoadLoop(items, partial, unknown, ts, ctx, remove) ==
  LET acc[i \in 0..Len(items)] ==
        IF i = 0 THEN NoneCollected(ts)
        ELSE Collect(acc[i - 1],
                     LoadItem(items[i], partial, BatchItemUnknown(unknown),
                              acc[i - 1].ts, ctx, remove),
                     i - 1)
  IN  acc[Len(items)]

\* `partial` as load passes it on
EffectivePartial(partial) == IF partial = NoneVal THEN self_partial ELSE partial

\* what load(many=False) attaches as valid_data when _load raised:
\* result_data is still the empty list, and the error's valid_data is
\* appended to it
SingleValidData(valid_data) == PyList(<<valid_data>>)

\* the end of load(many=False), r being what _load gave
LoadSingleResult(r) ==
  Conclude(IF r.raised THEN r.messages ELSE EmptyDict,
           IF r.raised THEN SingleValidData(r.valid_data) ELSE r.value,
           r.ts, r.log, <<0>>)

\* load(data, many=False, partial=partial, unknown=unknown)
LoadSingle(item, partial, unknown, ts, ctx, remove) ==
  LoadSingleResult(LoadItem(item, EffectivePartial(partial), unknown, ts, ctx, remove))

\* load(data, many=True, partial=partial, unknown=unknown)
LoadBatch(items, partial, unknown, ts, ctx, remove) ==
  ConcludeBatch(LoadLoop(items, EffectivePartial(partial), unknown, ts, ctx, remove))

(***************************************************************************)
(* Inputs.                                                                 *)
(***************************************************************************)
NoOnly == [given |-> FALSE, names |-> {}]
Only(S) == [given |-> TRUE, names |-> S]

FooSchema == [declared |-> {"foo"}, fields |-> {}, additional |-> {}]
\* a handler that declares a field named like the tag field
FooTyped == [declared |-> {"foo", "type"}, fields |-> {}, additional |-> {}]
\* a handler whose Meta.fields leaves a declared field out
FooMeta == [declared |-> {"foo", "hid"}, fields |-> {"foo"}, additional |-> {}]
BarSchema == [declared |-> {"bar"}, fields |-> {}, additional |-> {}]
\* a handler with a Meta.additional name
BarAdditional == [declared |-> {"bar"}, fields |-> {}, additional |-> {"foo"}]

Registry(F, B) == [t \in {"foo", "bar"} |-> IF t = "foo" THEN F ELSE B]

Registries ==
  {Registry(F, BarSchema) : F \in {FooSchema, FooTyped, FooMeta}}
    \cup {Registry(FooSchema, BarAdditional)}

OnlyChoices ==
  {NoOnly} \cup {Only(S) : S \in {{}, {"type"}, {"foo"}, {"type", "foo"}, {"hid"}}}

ExcludeChoices == SUBSET {"type", "bar"}

Contexts == {EmptyDict, Dict1("k1", "a"), Dict1("k1", "b"), Dict1("k2", "a")}

Obj(c, t, d) == [cls |-> c, tag |-> t, data |-> d]

Objects ==
  {Obj("Foo", "foo", Dict2("foo", "v1", "hid", "v2")),
   Obj("Foo", "foo", Dict2("foo", "v1", "type", "v2")),
   Obj("Foo", "foo", Dict1("foo", BadValue)),
   Obj("Bar", "bar", Dict1("bar", "v1")),
   Obj("Ghost", "ghost", EmptyDict),
   Obj("Thing", NoneVal, EmptyDict),
   Obj("Thing", "", Dict1("foo", "v1"))}

\* the objects batches are drawn from
BatchObjects ==
  {Obj("Foo", "foo", Dict2("foo", "v1", "hid", "v2")),
   Obj("Foo", "foo", Dict1("foo", BadValue)),
   Obj("Ghost", "ghost", EmptyDict),
   Obj("Thing", NoneVal, EmptyDict)}

TagValues == {NoneVal, "", EmptyList, List1, Zero, "foo", "bar", "ghost"}

KeyValues(key) ==
  IF key = type_field THEN TagValues
  ELSE IF key = "foo" THEN {"v1", BadValue}
  ELSE {"v1"}

Records ==
  UNION {{d \in [K -> TagValues \cup {"v1", BadValue}] :
            \A key \in K : d[key] \in KeyValues(key)} :
         K \in SUBSET {type_field, "foo", "bar"}}

Items == {PyDict(d) : d \in Records} \cup {PyStr}

\* the items batches are drawn from
BatchItems ==
  {PyDict(Dict2(type_field, "foo", "foo", "v1")),
   PyDict(Dict2(type_field, "bar", "bar", "v1")),
   PyDict(Dict2(type_field, "foo", "foo", BadValue)),
   PyDict(Dict2(type_field, "foo", "bar", "v1")),
   PyStr}

Partials == {NoneVal, "True"}
Unknowns == {NoneVal, EXCLUDE, INCLUDE}

\* the <<partial, unknown>> the calls of the restricted specifications give
LoadOptions == {<<NoneVal, NoneVal>>, <<NoneVal, EXCLUDE>>, <<"True", INCLUDE>>}
BatchOptions == {<<NoneVal, NoneVal>>, <<"True", EXCLUDE>>}

\* the objects and items of the calls made under a changing context
ContextObjects ==
  {Obj("Foo", "foo", Dict1("foo", "v1")), Obj("Bar", "bar", Dict1("bar", "v1"))}
ContextItems ==
  {PyDict(Dict2(type_field, "foo", "foo", "v1")),
   PyDict(Dict2(type_field, "bar", "bar", "v1"))}

SeqsUpTo(S, n) == UNION {[1..m -> S] : m \in 0..n}

(***************************************************************************)
(* The initial states: the schema as __init__ leaves it.                   *)
(***************************************************************************)
NoCall ==
  [op |-> "none", many |-> FALSE, input |-> <<>>, partial |-> NoneVal,
   unknown |-> NoneVal, ctx |-> EmptyDict]
NoRes ==
  [raised |-> FALSE, value |-> PyNone, messages |-> EmptyDict,
   valid_data |-> PyNone, attempted |-> <<>>]
NotDumped == [ok |-> FALSE, obj |-> Obj("", NoneVal, EmptyDict), rec |-> EmptyDict]

Construct(classes, only, exclude, remove) ==
  /\ ctor = [only |-> only, exclude |-> exclude]
  /\ type_field_remove = remove
  /\ type_field_dump = InitTypeFieldDump(only, exclude)
  /\ type_schemas = InitTypeSchemas(classes, only, exclude)
  /\ context = EmptyDict
  /\ call = NoCall
  /\ res = NoRes
  /\ log = <<>>
  /\ dumped = NotDumped

Init ==
  \E classes \in Registries, only \in OnlyChoices, exclude \in ExcludeChoices,
     remove \in BOOLEAN :
    Construct(classes, only, exclude, remove)

(***************************************************************************)
(* The operations.                                                         *)
(***************************************************************************)
Outcome(r) ==
  [raised |-> r.raised, value |-> r.value, messages |-> r.messages,
   valid_data |-> r.valid_data, attempted |-> r.attempted]

Call(op, many, input, partial, unknown) ==
  [op |-> op, many |-> many, input |-> input, partial |-> partial,
   unknown |-> unknown, ctx |-> context]

\* what the caller holds after dump(obj, many=False) gave r
DumpedRecord(obj, r) ==
  IF ~r.raised /\ r.value.k = "dict"
    THEN [ok |-> TRUE, obj |-> obj, rec |-> r.value.v]
    ELSE NotDumped

\* the user assigns schema.context
SetContext(c) ==
  /\ context' = c
  /\ UNCHANGED <<ctor, type_field_remove, type_field_dump, type_schemas,
                 call, res, log, dumped>>

\* dump(obj, many=False)
DumpOne(obj) ==
  \E r \in {DumpSingle(obj, type_schemas, context, type_field_dump)} :
    /\ call' = Call("dump", FALSE, <<obj>>, NoneVal, NoneVal)
    /\ res' = Outcome(r)
    /\ log' = r.log
    /\ type_schemas' = r.ts
    /\ dumped' = DumpedRecord(obj, r)
    /\ UNCHANGED <<ctor, type_field_remove, type_field_dump, context>>

\* dump(objs, many=True)
DumpMany(objs) ==
  \E r \in {DumpBatch(objs, type_schemas, context, type_field_dump)} :
    /\ call' = Call("dump", TRUE, objs, NoneVal, NoneVal)
    /\ res' = Outcome(r)
    /\ log' = r.log
    /\ type_schemas' = r.ts
    /\ dumped' = NotDumped
    /\ UNCHANGED <<ctor, type_field_remove, type_field_dump, context>>

\* load(item, many=False, partial=partial, unknown=unknown)
LoadOne(item, partial, unknown) ==
  \E r \in {LoadSingle(item, partial, unknown, type_schemas, context,
                       type_field_remove)} :
    /\ call' = Call("load", FALSE, <<item>>, partial, unknown)
    /\ res' = Outcome(r)
    /\ log' = r.log
    /\ type_schemas' = r.ts
    /\ UNCHANGED <<ctor, type_field_remove, type_field_dump, context, dumped>>

\* load(items, many=True, partial=partial, unknown=unknown)
LoadMany(items, partial, unknown) ==
  \E r \in {LoadBatch(items, partial, unknown, type_schemas, context,
                      type_field_remove)} :
    /\ call' = Call("load", TRUE, items, partial, unknown)
    /\ res' = Outcome(r)
    /\ log' = r.log
    /\ type_schemas' = r.ts
    /\ dumped' = NotDumped
    /\ UNCHANGED <<ctor, type_field_remove, type_field_dump, context>>

Next ==
  \/ \E c \in Contexts : SetContext(c)
  \/ \E obj \in Objects : DumpOne(obj)
  \/ \E objs \in SeqsUpTo(BatchObjects, MaxLen) : DumpMany(objs)
  \/ \E item \in Items, partial \in Partials, unknown \in Unknowns :
       LoadOne(item, partial, unknown)
  \/ \E items \in SeqsUpTo(BatchItems, MaxLen), partial \in Partials,
        unknown \in Unknowns :
       LoadMany(items, partial, unknown)

Spec == Init /\ [][Next]_vars

(***************************************************************************)
(* Loading: the schema constructed without only and exclude.               *)
(***************************************************************************)
InitLoad ==
  \E F \in {FooSchema, FooTyped}, remove \in BOOLEAN :
    Construct(Registry(F, BarSchema), NoOnly, {}, remove)

NextLoad ==
  \/ \E item \in Items, o \in LoadOptions : LoadOne(item, o[1], o[2])
  \/ \E items \in SeqsUpTo(BatchItems, MaxLen), o \in BatchOptions :
       LoadMany(items, o[1], o[2])

SpecLoad == InitLoad /\ [][NextLoad]_vars

(***************************************************************************)
(* Dumping: every construction.                                            *)
(***************************************************************************)
InitDump ==
  \E classes \in Registries, only \in OnlyChoices, exclude \in ExcludeChoices :
    Construct(classes, only, exclude, TRUE)

NextDump ==
  \/ \E obj \in Objects : DumpOne(obj)
  \/ \E objs \in SeqsUpTo(BatchObjects, MaxLen) : DumpMany(objs)

SpecDump == InitDump /\ [][NextDump]_vars

(***************************************************************************)
(* A record dumped and loaded back, the schema constructed without only    *)
(* and exclude and type_field_remove left at its default.                  *)
(***************************************************************************)
InitRound ==
  \E classes \in Registries : Construct(classes, NoOnly, {}, TRUE)

NextRound ==
  \/ \E obj \in Objects : DumpOne(obj)
  \/ \E item \in Items \cup {PyDict(dumped.rec)} : LoadOne(item, NoneVal, NoneVal)

SpecRound == InitRound /\ [][NextRound]_vars

(***************************************************************************)
(* Calls under a changing context.                                         *)
(***************************************************************************)
InitContext == Construct(Registry(FooSchema, BarSchema), NoOnly, {}, TRUE)

NextContext ==
  \/ \E c \in Contexts : SetContext(c)
  \/ \E obj \in ContextObjects : DumpOne(obj)
  \/ \E objs \in SeqsUpTo(ContextObjects, MaxLen) : DumpMany(objs)
  \/ \E item \in ContextItems : LoadOne(item, NoneVal, NoneVal)
  \/ \E items \in SeqsUpTo(ContextItems, MaxLen) : LoadMany(items, NoneVal, NoneVal)

SpecContext == InitContext /\ [][NextContext]_vars

(***************************************************************************)
(* The claims.                                                             *)
(***************************************************************************)
IsLoadOne == call.op = "load" /\ ~call.many
IsLoadMany == call.op = "load" /\ call.many
IsDumpOne == call.op = "dump" /\ ~call.many
IsDumpMany == call.op = "dump" /\ call.many

\* the tag field of a dict item, None when it is absent
TagOf(item) == IF type_field \in DOMAIN item.v THEN item.v[type_field] ELSE NoneVal

\* C1: single-item load is decided by the tag field alone, in this order: a
\* non-dict input is a "_schema" error; a tag that is absent or empty (None,
\* "", an empty list, 0: whatever Python takes for false) is a required-field
\* error on the tag field; else an unhashable tag is an invalid-value error
\* on the tag field; else a tag that is not registered is an
\* unsupported-value error on the tag field naming the tag; else the record
\* is delegated once, to the handler registered under the tag.
C1_TagDecidesSingleLoad ==
  IsLoadOne =>
    IF call.input[1].k # "dict"
      THEN /\ res.raised
           /\ res.messages = ("_schema" :> "Invalid data type: text")
           /\ Len(log) = 0
    ELSE IF TagOf(call.input[1]) \in {NoneVal, "", EmptyList, Zero}
      THEN /\ res.raised
           /\ res.messages = (type_field :> <<"Missing data for required field.">>)
           /\ Len(log) = 0
    ELSE IF TagOf(call.input[1]) = List1
      THEN /\ res.raised
           /\ res.messages = (type_field :> <<"Invalid value: <[1]>">>)
           /\ Len(log) = 0
    ELSE IF TagOf(call.input[1]) \notin {"foo", "bar"}
      THEN /\ res.raised
           /\ res.messages =
                (type_field :> <<"Unsupported value: " \o TagOf(call.input[1])>>)
           /\ Len(log) = 0
    ELSE /\ Len(log) = 1
         /\ log[1].op = "load"
         /\ log[1].tag = TagOf(call.input[1])

\* C1 witness: a record with an unhashable tag was refused with an error on
\* the tag field, no handler having been called.
C1_Witness ==
  /\ IsLoadOne
  /\ call.input[1].k = "dict"
  /\ TagOf(call.input[1]) = List1
  /\ res.raised
  /\ type_field \in DOMAIN res.messages
  /\ Len(log) = 0

\* what _load gives for item i of the last batch load, called as the loop
\* calls it
BatchItemOutcome(i) ==
  LoadItem(call.input[i], EffectivePartial(call.partial),
           BatchItemUnknown(call.unknown), type_schemas, call.ctx,
           type_field_remove)

BatchFailing == {i \in 1..Len(call.input) : BatchItemOutcome(i).raised}

\* C2: load(records, many=True) attempts every record in input order; when
\* no record fails it returns the loaded values in input order; when one
\* fails it raises one error whose messages have as keys exactly the indices
\* of the failing records and whose valid_data is as long as the input, with
\* each successful record's value at its index.
C2_BatchLoadAggregates ==
  IsLoadMany =>
    /\ res.attempted = [i \in 1..Len(call.input) |-> i - 1]
    /\ BatchFailing = {} =>
         /\ ~res.raised
         /\ res.value.k = "list"
         /\ Len(res.value.v) = Len(call.input)
         /\ \A i \in 1..Len(call.input) : res.value.v[i] = BatchItemOutcome(i).value
    /\ BatchFailing # {} =>
         /\ res.raised
         /\ DOMAIN res.messages = {i - 1 : i \in BatchFailing}
         /\ res.valid_data.k = "list"
         /\ Len(res.valid_data.v) = Len(call.input)
         /\ \A i \in (1..Len(call.input)) \ BatchFailing :
              res.valid_data.v[i] = BatchItemOutcome(i).value

\* C2 witness: a batch whose first record fails and whose second loads.
C2_Witness ==
  /\ IsLoadMany
  /\ Len(call.input) = 2
  /\ res.raised
  /\ DOMAIN res.messages = {0}
  /\ Len(log) = 1
  /\ res.valid_data.v[2].k = "dict"

\* an object for which _dump finds no handler
Unresolved(obj) == obj.tag \in {NoneVal, ""} \/ obj.tag \notin {"foo", "bar"}

\* C3: in dump(values, many=True) an item whose tag is empty or has no
\* handler is an error of that item: the call raises, and the messages hold
\* the item's index; the single-item dump of such a value raises.
C3_UnresolvedDumpIsError ==
  /\ IsDumpMany =>
       \A i \in 1..Len(call.input) :
         Unresolved(call.input[i]) =>
           res.raised /\ (i - 1) \in DOMAIN res.messages
  /\ IsDumpOne /\ Unresolved(call.input[1]) => res.raised

\* the handler a dumped record came from
DumpedHandler == type_schemas[dumped.obj.tag]

\* the last call loaded the record the last single-item dump returned
LoadedDumped ==
  /\ IsLoadOne
  /\ dumped.ok
  /\ call.input[1].k = "dict"
  /\ call.input[1].v = dumped.rec

\* the load gave back the dumped object's field data, through the handler
\* that dumped it
RoundTrips ==
  /\ ~res.raised
  /\ Len(log) = 1
  /\ log[1].tag = dumped.obj.tag
  /\ res.value.k = "dict"
  /\ DOMAIN res.value.v = EffectiveFields(DumpedHandler) \cap DOMAIN dumped.obj.data
  /\ \A f \in DOMAIN res.value.v : res.value.v[f] = dumped.obj.data[f]

\* C4 as stated: the load of the record a single-item dump returned
\* succeeds, goes to the same handler and gives the object's field data,
\* for every handler.
C4_RoundTripEveryHandler == LoadedDumped => RoundTrips

\* C4 amended: the same, for every handler that has no field named like the
\* tag field.
C4_RoundTrip ==
  LoadedDumped /\ type_field \notin EffectiveFields(DumpedHandler) => RoundTrips

\* C4 witness: a dumped record with a field was loaded back.
C4_Witness ==
  /\ LoadedDumped
  /\ type_field \notin EffectiveFields(DumpedHandler)
  /\ "foo" \in DOMAIN dumped.rec
  /\ ~res.raised
  /\ "foo" \in DOMAIN res.value.v

\* C5 as stated: whatever the flags, no record handed to a handler's load
\* holds the tag field.
C5_TagNeverHandedOn ==
  \A i \in 1..Len(log) :
    log[i].op = "load" => type_field \notin DOMAIN log[i].data

\* C5 amended: while type_field_remove holds (its default), no record
\* handed to a handler's load holds the tag field.
C5_TagStrippedWhenRemoving ==
  type_field_remove =>
    \A i \in 1..Len(log) :
      log[i].op = "load" => type_field \notin DOMAIN log[i].data

\* C5 witness: a record with a tag was delegated under type_field_remove.
C5_Witness ==
  /\ type_field_remove
  /\ IsLoadOne
  /\ call.input[1].k = "dict"
  /\ type_field \in DOMAIN call.input[1].v
  /\ Len(log) = 1
  /\ "foo" \in DOMAIN log[1].data

\* C6: at every delegation the handler's context is the schema's context at
\* the time of the call, with no key of an earlier context left over.
C6_HandlerSeesCurrentContext ==
  \A i \in 1..Len(log) : log[i].ctx = call.ctx

\* whether C7 has the tag written, by the arguments of __init__
TagRequested ==
  /\ ~ctor.only.given \/ type_field \in ctor.only.names
  /\ type_field \notin ctor.exclude

\* C7: dump writes the resolved tag into the record exactly when only is
\* not given or holds the tag field, and exclude does not hold it.
C7_TagWrittenIffRequested ==
  IsDumpOne /\ ~res.raised /\ res.value.k = "dict" =>
    ((/\ type_field \in DOMAIN res.value.v
      /\ res.value.v[type_field] = call.input[1].tag) <=> TagRequested)

\* the names C8 as stated takes for a handler's available ones
DeclaredAndAdditional(h) == h.cls.declared \cup h.cls.additional

\* the names the handler's class makes available: its Meta.fields when it
\* gives any, else the declared and the additional ones
ClassFieldNames(h) ==
  IF h.cls.fields # {} THEN h.cls.fields ELSE h.cls.declared \cup h.cls.additional

C9_UnknownPolicyHandedOn ==
  call.op = "load" =>
    \A i \in 1..Len(log) :
      log[i].unknown = IF call.unknown = NoneVal THEN self_unknown ELSE call.unknown

\* what the handler reported in the one delegation of the last call
Reported ==
  HandlerLoad(type_schemas[log[1].tag], log[1].data, log[1].partial, log[1].unknown)

\* C10: when the handler of a single-item load reports a failure, the error
\* raised carries the handler's messages and the handler's valid_data
\* itself, not wrapped in a list.
C10_HandlerErrorUnchanged ==
  IsLoadOne /\ Len(log) = 1 /\ res.raised =>
    /\ res.messages = Reported.messages
    /\ res.valid_data.k = "dict"
    /\ res.valid_data.v = Reported.valid_data.v

====
